---- MODULE Spec2Model ----
(***************************************************************************)
(* Model of the gpon-sync worker: the run controller (cmd/worker main,     *)
(* runProcess), the worker pool (core.WorkerPool.Run / worker) and the     *)
(* batch writer loop that drains the pool's result channel.                *)
(*                                                                         *)
(* The model starts at main's first call of runProcess.  When the call     *)
(* returns main is in its select (pc = "idle"), where a tick starts the    *)
(* next run and a signal ends the process (pc = "exit").  Every goroutine  *)
(* is a process of the model: the controller, the N workers and the        *)
(* goroutine that waits for the workers and closes the result channel.  A  *)
(* step is a channel operation, the return of a blocking port call, or an  *)
(* access of the Zabbix adapter's session token.  The ticker, the signals  *)
(* and the upstreams are the environment; how many ticks and signals come  *)
(* and how the upstreams answer is fixed in the initial state.             *)
(*                                                                         *)
(* Go strings are modelled as naturals: the empty string is 0, and every   *)
(* value an upstream returns is a positive number that encodes which field *)
(* of which circuit it is.  An error value is the sequence of the upstream *)
(* tags wrapped into it; nil is <<>>.                                      *)
(*                                                                         *)
(* Seen from the pool, a call of an adapter is one step.  Two adapters are *)
(* also followed on their own, statement by statement: the repository's    *)
(* UpdateCircuitBatch with its transaction (SpecRepo), and the Notion      *)
(* adapter's queryNotion with its retry loop and rateLimit (SpecNotion).   *)
(***************************************************************************)
EXTENDS Integers, Sequences, FiniteSets, TLC

\* ------------------------------------------------------------------ bounds
MaxWorkers == 2
MaxCircuits == 2
MaxStream == 250
MaxTicks == 1
MaxSignals == 1
MaxBatch == 3
MaxCallers == 2
MaxClock == 6

\* ------------------------------------------------------- program constants
batchSize == 100
DefaultWorkerCount == 5
maxRetries == 3
minInterval == 350
baseDelay == 1000

VARIABLES
  workerCount,    \* cfg.WorkerCount (wp.workerCount)
  dryRun,         \* cfg.DryRun
  rows,           \* number of rows of the circuitos table
  upstream,       \* how the upstreams answer: "any" (every call may
                  \* succeed or fail), "scripted" or "fixed" (the answer
                  \* is fixed per circuit), or "raw" ("any", and a response
                  \* may lack the fields the adapter expects)
  script,         \* the answers of the "fixed" upstreams, see OutcomeOf
  ticks,          \* the ticks the ticker will still deliver
  sigs,           \* the signals the process will still be sent
  tickCh,         \* buffer of ticker.C (capacity 1)
  sigCh,          \* buffer of sigChan (capacity 1)
  run,            \* the number of runProcess calls made so far
  outcome,        \* how far the current or last call of runProcess got
  token,          \* ZabbixAdapter.token ("" is 0)
  pc,             \* position of the controller goroutine in main/runProcess
  circuits,       \* runProcess local: the fetched circuit list
  jobs,           \* buffer of the (closed) jobs channel
  results,        \* buffer of the results channel
  resultsCap,     \* capacity of the results channel
  resultsClosed,  \* close(results) has been executed
  wg,             \* sync.WaitGroup counter
  spawned,        \* loop variable i of Run's spawn loop
  wpc,            \* position of every worker goroutine
  wcur,           \* worker local c (the dequeued circuit's CID)
  wnet,           \* worker locals olt, ont
  enriched,       \* worker local enriched
  closer,         \* position of the goroutine that waits and closes
  panicked,       \* a goroutine panicked (send on a closed channel, index
                  \* out of range): the process has ended
  batch,          \* runProcess local: the accumulator
  processedCount,
  successCount,
  errorCount,
  received,       \* history: the CircuitIDs of the results read from the
                  \* stream, in the order read
  updateCalls,    \* history: the UpdateCircuitBatch calls of the run
  called,         \* history: per port, the circuits it was called for
  failed,         \* history: per port, the circuits it returned an error for
  dbpc,           \* position of a call of the repository's
                  \* UpdateCircuitBatch
  txData,         \* its argument data
  dbIdx,          \* index of the item its Exec loop is at
  tx,             \* the state of its transaction
  txRows,         \* the rows as the open transaction sees them
  table,          \* the committed rows of the circuitos table
  dbErr,          \* the error the call returned (nil is <<>>)
  npc,            \* position of every caller of NotionAdapter.queryNotion
  attempt,        \* queryNotion local attempt, per caller
  wake,           \* per caller, the time its time.Sleep ends at the
                  \* earliest
  responses,      \* history: per caller, the answers client.Do gave to
                  \* the requests of its query
  nret,           \* per caller, what queryNotion returned
  mu,             \* NotionAdapter.mu: the caller that holds it, or 0
  lastRequest,    \* NotionAdapter.lastRequest, in ms since the process
                  \* started
  prevRequest,    \* history: the value lastRequest had before
  now             \* the latest reading of the clock, in ms

vars == <<workerCount, dryRun, rows, upstream, script, ticks, sigs, tickCh,
          sigCh, run, outcome, token, pc, circuits, jobs, results,
          resultsCap, resultsClosed, wg, spawned, wpc, wcur, wnet, enriched,
          closer, panicked, batch, processedCount, successCount, errorCount,
          received, updateCalls, called, failed,
          dbpc, txData, dbIdx, tx, txRows, table, dbErr,
          npc, attempt, wake, responses, nret, mu, lastRequest,
          prevRequest, now>>

cfgVars == <<workerCount, dryRun, rows, upstream, script>>
loopVars == <<ticks, sigs, tickCh, sigCh, run>>
poolVars == <<jobs, results, resultsCap, resultsClosed, wg, spawned, wpc,
              wcur, wnet, enriched, closer, panicked, called, failed>>
writerVars == <<batch, processedCount, successCount, errorCount, received,
                updateCalls>>
repoVars == <<dbpc, txData, dbIdx, tx, txRows, table, dbErr>>
notionVars == <<npc, attempt, wake, responses, nret, mu, lastRequest,
                prevRequest, now>>
adapterVars == <<repoVars, notionVars>>
mainVars == <<cfgVars, loopVars, outcome, token, pc, circuits, poolVars,
              writerVars>>

Workers == 1..MaxWorkers

\* the empty Go string, and the nil error
NoValue == 0
NoError == <<>>

\* the zero value of core.EnrichedData with only CircuitID set
NewEnrichedData(cid) ==
  [CircuitID |-> cid, PPPoEUsername |-> NoValue, PPPoEPassword |-> NoValue,
   StatusGpon |-> NoValue, RxPower |-> NoValue, Error |-> NoError]

\* fmt.Errorf("<tag> error: %w", err), and the composite form
\* fmt.Errorf("%v; <tag> error: %w", prev, err)
Errorf(prev, tag) == Append(prev, tag)

\* what the three upstreams answer for a circuit when they succeed
\* (the optical answer is a function of the OLT host and ONT address only)
NetworkInfoOf(cid) == [olt |-> 10 * cid + 1, ont |-> 10 * cid + 2]
ServiceDetailsOf(cid) == [user |-> 10 * cid + 3, pass |-> 10 * cid + 4]
OpticalInfoOf(net) == [status |-> net.olt + net.ont + 2,
                       rx |-> net.olt + net.ont + 3]

Ports == {"notion", "ubersmith", "zabbix"}

\* the scripted upstreams: the answer is fixed per circuit, and every
\* outcome of the workflow occurs among five consecutive circuits
ScriptedAnswer(port, cid) ==
  CASE port = "notion" -> cid % 5 # 0
    [] port = "ubersmith" -> cid % 3 # 0
    [] port = "zabbix" -> cid % 4 # 0

\* the "fixed" upstreams: the outcome of circuit cid is the cid-th digit of
\* script in base 5: 0 no lookup fails, 1 network info fails, 2 service
\* details fail, 3 optical info fails, 4 service details and optical info
\* fail
RECURSIVE Power(_, _)
Power(b, n) == IF n = 0 THEN 1 ELSE b * Power(b, n - 1)

OutcomeOf(cid) == (script \div Power(5, cid - 1)) % 5

FixedAnswer(port, cid) ==
  CASE port = "notion" -> OutcomeOf(cid) # 1
    [] port = "ubersmith" -> OutcomeOf(cid) \notin {2, 4}
    [] port = "zabbix" -> OutcomeOf(cid) \notin {3, 4}

\* the answers a call of the port for the circuit may get
\* (TRUE: the lookup succeeds, FALSE: it returns an error)
Answers(port, cid) ==
  CASE upstream \in {"any", "raw"} -> BOOLEAN
    [] upstream = "fixed" -> {FixedAnswer(port, cid)}
    [] upstream = "scripted" -> {ScriptedAnswer(port, cid)}

\* the shapes the first row of a Notion query result may have: TRUE when
\* its "OLT" and "ONT ID" properties hold at least one rich-text element
RowShapes == IF upstream = "raw" THEN BOOLEAN ELSE {TRUE}

\* the call is recorded in the history
Record(h, port, cid) == [h EXCEPT ![port] = @ \cup {cid}]
RecordIf(h, port, cid, cond) == IF cond THEN Record(h, port, cid) ELSE h

\* the rows of the table, in SELECT order: the CIDs are distinct
CircuitTable(k) == [i \in 1..k |-> i]

\* ---------------------------------------------------------- configuration
\* A Go string that is parsed is a sequence of characters.
DecimalDigits == <<"0", "1", "2", "3", "4", "5", "6", "7", "8", "9">>

\* the value of a decimal digit, -1 for any other character
DigitValue(ch) ==
  IF \E d \in DOMAIN DecimalDigits : DecimalDigits[d] = ch
    THEN (CHOOSE d \in DOMAIN DecimalDigits : DecimalDigits[d] = ch) - 1
    ELSE -1

\* the value of a string of decimal digits, -1 if another character occurs
RECURSIVE ParseDigits(_, _)
ParseDigits(str, acc) ==
  IF str = <<>> THEN acc
  ELSE IF DigitValue(Head(str)) < 0 THEN -1
  ELSE ParseDigits(Tail(str), 10 * acc + DigitValue(Head(str)))

\* strconv.Atoi: an optional sign and at least one digit, else an error
Atoi(str) ==
  LET signed == str # <<>> /\ Head(str) \in {"+", "-"}
      digits == IF signed THEN Tail(str) ELSE str
      n == IF digits = <<>> THEN -1 ELSE ParseDigits(digits, 0)
  IN IF n < 0 THEN [err |-> TRUE, n |-> 0]
     ELSE [err |-> FALSE, n |-> IF signed /\ Head(str) = "-" THEN 0 - n ELSE n]

\* strconv.Itoa for the numbers of one digit
Itoa(n) ==
  IF n < 0 THEN <<"-", DecimalDigits[1 - n]>> ELSE <<DecimalDigits[n + 1]>>

\* getEnv(key, fallback): the variable's value if it exists
getEnv(env, fallback) == IF env.exists THEN env.value ELSE fallback

\* config.Load, the WorkerCount field: the default replaces only a value
\* that does not parse
LoadWorkerCount(env) ==
  LET r == Atoi(getEnv(env, Itoa(DefaultWorkerCount))) IN
    IF r.err THEN DefaultWorkerCount ELSE r.n

\* the WORKER_COUNT settings of the model: the numbers from -1 to MaxWorkers
\* (an unset or unparsable WORKER_COUNT gives DefaultWorkerCount workers)
WorkerCountSettings ==
  {[exists |-> TRUE, value |-> Itoa(n)] : n \in -1..MaxWorkers}

\* ---------------------------------------------------------------- ports
\* NotionClient.GetNetworkInfo: (olt, ont, err)
GetNetworkInfo(cid, ok) ==
  IF ok
    THEN [err |-> FALSE, net |-> NetworkInfoOf(cid)]
    ELSE [err |-> TRUE, net |-> [olt |-> NoValue, ont |-> NoValue]]

\* NotionAdapter.GetNetworkInfo indexes RichText[0] of the "OLT" and
\* "ONT ID" properties of the first row without a length check: on a row
\* that lacks them the index is out of range and the goroutine panics
NetworkInfoPanics(found, shaped) == found /\ ~shaped

\* UbersmithClient.GetServiceDetails: (user, pass, err)
GetServiceDetails(cid, ok) ==
  IF ok
    THEN [err |-> FALSE, det |-> ServiceDetailsOf(cid)]
    ELSE [err |-> TRUE, det |-> [user |-> NoValue, pass |-> NoValue]]

\* ZabbixClient.GetOpticalInfo: (status, rx, err)
GetOpticalInfo(net, ok) ==
  IF ok
    THEN [err |-> FALSE, opt |-> OpticalInfoOf(net)]
    ELSE [err |-> TRUE, opt |-> [status |-> NoValue, rx |-> NoValue]]

\* --------------------------------------------- the per-circuit workflow
\* step 1 of the worker loop body: what the network-info answer does
\* to enriched, and where the worker goes next
AfterNetworkInfo(e, r) ==
  IF r.err THEN [e EXCEPT !.Error = Errorf(NoError, "notion")] ELSE e

\* mutants of NextAfterNetworkInfo: the failure path forgets the send,
\* leaves the worker hanging, falls through to the next step, or falls
\* through to the optical lookup
NextAfterNetworkInfoNoSend(r) == IF r.err THEN "range" ELSE "ubersmith"
NextAfterNetworkInfoHang(r) == IF r.err THEN "hung" ELSE "ubersmith"
NextAfterNetworkInfoFallThrough(r) == "ubersmith"
NextAfterNetworkInfoToOptical(r) == IF r.err THEN "zabbix" ELSE "ubersmith"

NextAfterNetworkInfo(r) == IF r.err THEN "send" ELSE "ubersmith"

\* step 2: a failed service-detail lookup is only logged, and the worker
\* goes on to the optical lookup either way
AfterServiceDetails(e, r) ==
  IF r.err THEN e
  ELSE [e EXCEPT !.PPPoEUsername = r.det.user, !.PPPoEPassword = r.det.pass]

\* mutant of NextAfterServiceDetails: a failed service-detail lookup ends
\* the circuit's workflow
NextAfterServiceDetailsShortCircuit(r) == IF r.err THEN "send" ELSE "zabbix"

NextAfterServiceDetails(r) == "zabbix"

\* step 3
AfterOpticalInfo(e, r) ==
  IF r.err
    THEN IF e.Error = NoError
           THEN [e EXCEPT !.Error = Errorf(NoError, "zabbix")]
           ELSE [e EXCEPT !.Error = Errorf(e.Error, "zabbix")]
    ELSE [e EXCEPT !.StatusGpon = r.opt.status, !.RxPower = r.opt.rx]

NoNet == [olt |-> NoValue, ont |-> NoValue]

\* ------------------------------------------------------------ controller
\* the session token a successful user.login of the r-th run returns when
\* the response carries one
SessionToken(r) == r

\* what user.login may answer: an error, a session token, or (a "raw"
\* upstream only) a result that is null or the empty string
LoginAnswers ==
  IF upstream = "raw" THEN {"error", "token", "empty"} ELSE {"error", "token"}

\* ZabbixAdapter.Authenticate: (the new value of z.token, err)
ZabbixAuthenticate(old, ans, r) ==
  CASE ans = "error" -> [err |-> TRUE, token |-> old]
    [] ans = "token" -> [err |-> FALSE, token |-> SessionToken(r)]
    [] ans = "empty" -> [err |-> FALSE, token |-> NoValue]

\* mutant of NextAfterAuthenticate: the error is only logged
NextAfterAuthenticateIgnoreError(err) == "fetch"

\* "if err := zabbixClient.Authenticate(); err != nil { ...; return }"
NextAfterAuthenticate(err) == IF err THEN "idle" ELSE "fetch"

\* zabbixClient.Authenticate() at the start of runProcess
Authenticate ==
  /\ pc = "auth"
  /\ \E ans \in LoginAnswers :
       LET r == ZabbixAuthenticate(token, ans, run) IN
         /\ token' = r.token
         /\ pc' = NextAfterAuthenticate(r.err)
         /\ outcome' = IF r.err THEN "authError" ELSE outcome
  /\ UNCHANGED <<adapterVars, cfgVars, loopVars, circuits, poolVars, writerVars>>

\* mutant of NextAfterFetch: the error is only logged
NextAfterFetchIgnoreError(err, n) == IF ~err /\ n = 0 THEN "idle" ELSE "run"

\* the two early returns after FetchPendingCircuits: on an error, and on
\* an empty list
NextAfterFetch(err, n) == IF err \/ n = 0 THEN "idle" ELSE "run"

\* dbRepo.FetchPendingCircuits() and the two early returns after it
FetchPendingCircuits ==
  /\ pc = "fetch"
  /\ \E ok \in BOOLEAN :
       /\ circuits' = IF ok THEN CircuitTable(rows) ELSE <<>>
       /\ pc' = NextAfterFetch(~ok, IF ok THEN rows ELSE 0)
       /\ outcome' = IF ~ok THEN "fetchError"
                     ELSE IF rows = 0 THEN "noCircuits" ELSE outcome
  /\ UNCHANGED <<adapterVars, cfgVars, loopVars, token, poolVars, writerVars>>

\* mutant of ResultsCapacity: an unbuffered result channel
ResultsCapacityUnbuffered(cs) == 0

\* "jobs := make(chan Circuit, len(circuits))"
JobsCapacity(cs) == Len(cs)

\* "results := make(chan EnrichedData, len(circuits))"
ResultsCapacity(cs) == Len(cs)

\* WorkerPool.Run up to close(jobs): no other goroutine of the pool exists
\* yet, so the sends "jobs <- c" go through only while the buffer has room
RunEnqueue ==
  /\ pc = "run"
  /\ Len(circuits) <= JobsCapacity(circuits)
  /\ jobs' = circuits
  /\ results' = <<>>
  /\ resultsCap' = ResultsCapacity(circuits)
  /\ wg' = 0
  /\ spawned' = 0
  /\ pc' = "spawn"
  /\ UNCHANGED <<adapterVars, cfgVars, loopVars, outcome, token,
                 circuits, resultsClosed, wpc, wcur, wnet, enriched,
                 closer, panicked, called, failed, writerVars>>

\* mutant of SpawnMore: the loop runs once more
SpawnMoreOffByOne(i) == i <= workerCount

\* the condition of Run's spawn loop: "i < wp.workerCount"
SpawnMore(i) == i < workerCount

\* one iteration of Run's spawn loop: wg.Add(1); go wp.worker(...)
RunSpawnWorker ==
  /\ pc = "spawn"
  /\ SpawnMore(spawned)
  /\ wg' = wg + 1
  /\ wpc' = [wpc EXCEPT ![spawned + 1] = "range"]
  /\ spawned' = spawned + 1
  /\ UNCHANGED <<adapterVars, cfgVars, loopVars, outcome, token,
                 pc, circuits, jobs, results, resultsCap,
                 resultsClosed, wcur, wnet, enriched, closer, panicked,
                 called, failed, writerVars>>

\* the end of Run: go func() { wg.Wait(); close(results) }(); return results,
\* then runProcess initialises the accumulator and the counters
RunReturn ==
  /\ pc = "spawn"
  /\ ~SpawnMore(spawned)
  /\ closer' = "wait"
  /\ pc' = "consume"
  /\ batch' = <<>>
  /\ processedCount' = 0
  /\ successCount' = 0
  /\ errorCount' = 0
  /\ UNCHANGED <<adapterVars, cfgVars, loopVars, outcome, token,
                 circuits, jobs, results, resultsCap, resultsClosed,
                 wg, spawned, wpc, wcur, wnet, enriched, panicked, called,
                 failed,
                 received, updateCalls>>

\* ------------------------------------------------------------ the workers
\* mutant of Receivable: the circuits are statically partitioned, worker w
\* takes only the circuits with CID = w modulo N
ReceivableStatic(w) ==
  jobs # <<>> /\ Head(jobs) % workerCount = w % workerCount

\* a receive from the jobs channel gets a circuit: the channel is shared by
\* all workers, and whoever receives gets the head of the buffer
Receivable(w) == jobs # <<>>

\* "for c := range jobs": receive the next circuit, or leave the loop on the
\* closed and empty channel and run the deferred wg.Done()
WorkerDequeue(w) ==
  /\ ~panicked
  /\ wpc[w] = "range"
  /\ IF Receivable(w)
       THEN /\ jobs' = Tail(jobs)
            /\ wcur' = [wcur EXCEPT ![w] = Head(jobs)]
            /\ enriched' = [enriched EXCEPT ![w] = NewEnrichedData(Head(jobs))]
            /\ wpc' = [wpc EXCEPT ![w] = "notion"]
            /\ wg' = wg
       ELSE /\ wpc' = [wpc EXCEPT ![w] = "done"]
            /\ wg' = wg - 1
            /\ UNCHANGED <<jobs, wcur, enriched>>
  /\ UNCHANGED <<adapterVars, cfgVars, loopVars, outcome, token,
                 pc, circuits, results, resultsCap, resultsClosed,
                 spawned, wnet, closer, panicked, called, failed, writerVars>>

\* 1. wp.notion.GetNetworkInfo(c.CID) returns
WorkerNetworkInfo(w) ==
  /\ ~panicked
  /\ wpc[w] = "notion"
  /\ \E ok \in Answers("notion", wcur[w]), shaped \in RowShapes :
       LET r == GetNetworkInfo(wcur[w], ok) IN
         /\ called' = Record(called, "notion", wcur[w])
         /\ failed' = RecordIf(failed, "notion", wcur[w], r.err)
         /\ IF NetworkInfoPanics(ok, shaped)
              THEN /\ panicked' = TRUE
                   /\ UNCHANGED <<enriched, wnet, wpc>>
              ELSE /\ enriched' = [enriched EXCEPT
                                     ![w] = AfterNetworkInfo(@, r)]
                   /\ wnet' = [wnet EXCEPT ![w] = r.net]
                   /\ wpc' = [wpc EXCEPT ![w] = NextAfterNetworkInfo(r)]
                   /\ UNCHANGED panicked
  /\ UNCHANGED <<adapterVars, cfgVars, loopVars, outcome, token,
                 pc, circuits, jobs, results, resultsCap,
                 resultsClosed, wg, spawned, wcur, closer, writerVars>>

\* 2. wp.ubersmith.GetServiceDetails(c.CID) returns
WorkerServiceDetails(w) ==
  /\ ~panicked
  /\ wpc[w] = "ubersmith"
  /\ \E ok \in Answers("ubersmith", wcur[w]) :
       LET r == GetServiceDetails(wcur[w], ok) IN
         /\ enriched' = [enriched EXCEPT ![w] = AfterServiceDetails(@, r)]
         /\ called' = Record(called, "ubersmith", wcur[w])
         /\ failed' = RecordIf(failed, "ubersmith", wcur[w], r.err)
         /\ wpc' = [wpc EXCEPT ![w] = NextAfterServiceDetails(r)]
  /\ UNCHANGED <<adapterVars, cfgVars, loopVars, outcome, token,
                 pc, circuits, jobs, results, resultsCap,
                 resultsClosed, wg, spawned, wcur, wnet, closer, panicked,
                 writerVars>>

\* the positions of a worker inside ZabbixAdapter.GetOpticalInfo: about to
\* read z.token in "if z.token == \"\"" ("zabbix"), inside the lazy
\* z.Authenticate() that ends with the write "z.token = token" ("zlogin"),
\* and about to read z.token for the item.get request ("zget")
TokenReaders == {"zabbix", "zget"}
TokenWriters == {"zlogin"}

\* "if z.token == \"\"": the adapter authenticates before the request
LazyLogin(tok) == tok = NoValue

\* 3. wp.zabbix.GetOpticalInfo(olt, ont): one step per access of the
\* adapter's token; the item.get request and the worker's handling of its
\* answer belong to the step that reads the token for the request
WorkerOpticalInfo(w) ==
  /\ ~panicked
  /\ wpc[w] \in TokenReaders \cup TokenWriters
  /\ IF wpc[w] = "zabbix" /\ LazyLogin(token)
       THEN /\ wpc' = [wpc EXCEPT ![w] = "zlogin"]
            /\ UNCHANGED <<token, enriched, called, failed>>
       ELSE IF wpc[w] = "zlogin"
       THEN \E ans \in LoginAnswers :
              LET a == ZabbixAuthenticate(token, ans, run)
                  r == GetOpticalInfo(wnet[w], FALSE)
              IN
                /\ token' = a.token
                /\ IF a.err
                     THEN /\ enriched' = [enriched EXCEPT
                                            ![w] = AfterOpticalInfo(@, r)]
                          /\ called' = Record(called, "zabbix", wcur[w])
                          /\ failed' = Record(failed, "zabbix", wcur[w])
                          /\ wpc' = [wpc EXCEPT ![w] = "send"]
                     ELSE /\ wpc' = [wpc EXCEPT ![w] = "zget"]
                          /\ UNCHANGED <<enriched, called, failed>>
       ELSE \E ok \in Answers("zabbix", wcur[w]) :
              LET r == GetOpticalInfo(wnet[w], ok) IN
                /\ enriched' = [enriched EXCEPT
                                  ![w] = AfterOpticalInfo(@, r)]
                /\ called' = Record(called, "zabbix", wcur[w])
                /\ failed' = RecordIf(failed, "zabbix", wcur[w], r.err)
                /\ wpc' = [wpc EXCEPT ![w] = "send"]
                /\ UNCHANGED token
  /\ UNCHANGED <<adapterVars, cfgVars, loopVars, outcome,
                 pc, circuits, jobs, results, resultsCap,
                 resultsClosed, wg, spawned, wcur, wnet, closer, panicked,
                 writerVars>>

\* "results <- enriched" and back to the head of the loop; the send blocks
\* while the buffer is full and panics on a closed channel, which ends the
\* process: every action of a started run is guarded by ~panicked
\* mutant of Send: the buffer hands out the newest element first
SendToFront(ch, x) == <<x>> \o ch

\* a send on a buffered channel with room: the buffer is first in, first
\* out
Send(ch, x) == Append(ch, x)

\* "results <- enriched": blocks while the buffer is full, panics on a
\* closed channel
WorkerSend(w) ==
  /\ ~panicked
  /\ wpc[w] = "send"
  /\ resultsClosed \/ Len(results) < resultsCap
  /\ IF resultsClosed
       THEN /\ panicked' = TRUE
            /\ UNCHANGED <<results, wpc, wcur, wnet, enriched>>
       ELSE /\ results' = Send(results, enriched[w])
            /\ wpc' = [wpc EXCEPT ![w] = "range"]
            /\ wcur' = [wcur EXCEPT ![w] = 0]
            /\ wnet' = [wnet EXCEPT ![w] = NoNet]
            /\ enriched' = [enriched EXCEPT ![w] = NewEnrichedData(0)]
            /\ UNCHANGED panicked
  /\ UNCHANGED <<adapterVars, cfgVars, loopVars, outcome, token,
                 pc, circuits, jobs, resultsCap, resultsClosed, wg,
                 spawned, closer, called, failed, writerVars>>

\* mutant of WaitDone: the close is triggered by the empty job queue
WaitDoneQueueEmpty == jobs = <<>>

\* mutant of WaitDone: the close is triggered by the first worker that
\* returns
WaitDoneFirstWorker == \E w \in Workers : wpc[w] = "done"

\* wg.Wait() returns
WaitDone == wg = 0

\* the closing goroutine: wg.Wait(); close(results)
CloseResults ==
  /\ ~panicked
  /\ closer = "wait"
  /\ WaitDone
  /\ resultsClosed' = TRUE
  /\ closer' = "done"
  /\ UNCHANGED <<adapterVars, cfgVars, loopVars, outcome, token,
                 pc, circuits, jobs, results, resultsCap, wg,
                 spawned, wpc, wcur, wnet, enriched, panicked, called, failed,
                 writerVars>>

\* ------------------------------------------------------- the batch writer
\* mutant of Accumulate: failed results are skipped
AccumulateSuccessOnly(b, res) ==
  IF res.Error # NoError THEN b ELSE Append(b, res)

\* mutant of FlushDue: off by one
FlushDueOffByOne(b) == Len(b) > batchSize

\* "batch = append(batch, res)": every result is accumulated, whether its
\* Error is nil or not
Accumulate(b, res) == Append(b, res)

\* "if len(batch) >= batchSize"
FlushDue(b) == Len(b) >= batchSize

\* mutant of ClearBatch: a batch whose update failed is kept for a retry
ClearBatchKeepFailed(b, ok) == IF ok THEN <<>> ELSE b

\* "batch = nil" after the flush, whether UpdateCircuitBatch returned an
\* error or not
ClearBatch(b, ok) == <<>>

\* "if res.Error != nil { errorCount++ }"
ErrorsAfter(n, res) == IF res.Error # NoError THEN n + 1 ELSE n

\* "else { successCount++ }"
SuccessAfter(n, res) == IF res.Error # NoError THEN n ELSE n + 1

\* mutant of FlushRemainder: the final flush is made even for an empty
\* accumulator
FlushRemainderAlways(b) == TRUE

\* "if len(batch) > 0" after the range loop
FlushRemainder(b) == Len(b) > 0

\* mutant of Persisting: the batch is written whatever DryRun says
PersistingAlways(dry) == TRUE

\* "if cfg.DryRun { log only } else { dbRepo.UpdateCircuitBatch(batch) }"
Persisting(dry) == ~dry

\* dbRepo.UpdateCircuitBatch(batch) as seen by the caller: the call is
\* recorded with its argument and whether it returned nil
UpdateCircuitBatch(calls, data, ok) ==
  Append(calls, [data |-> data, ok |-> ok])

\* one iteration of "for res := range resultsCh"
ConsumeResult ==
  /\ ~panicked
  /\ pc = "consume"
  /\ results # <<>>
  /\ LET res == Head(results)
         b == Accumulate(batch, res)
     IN
       /\ results' = Tail(results)
       /\ received' = Append(received, res.CircuitID)
       /\ processedCount' = processedCount + 1
       /\ errorCount' = ErrorsAfter(errorCount, res)
       /\ successCount' = SuccessAfter(successCount, res)
       /\ IF FlushDue(b)
            THEN IF Persisting(dryRun)
                   THEN \E ok \in BOOLEAN :
                          /\ updateCalls' =
                               UpdateCircuitBatch(updateCalls, b, ok)
                          /\ batch' = ClearBatch(b, ok)
                   ELSE /\ batch' = ClearBatch(b, TRUE)
                        /\ UNCHANGED updateCalls
            ELSE /\ batch' = b
                 /\ UNCHANGED updateCalls
  /\ UNCHANGED <<adapterVars, cfgVars, loopVars, outcome, token,
                 pc, circuits, jobs, resultsCap, resultsClosed, wg,
                 spawned, wpc, wcur, wnet, enriched, closer, panicked,
                 called, failed>>

\* the range loop ends on the closed and drained channel; the remainder is
\* flushed, the summary is logged and runProcess returns
FinishRun ==
  /\ ~panicked
  /\ pc = "consume"
  /\ results = <<>>
  /\ resultsClosed
  /\ IF FlushRemainder(batch) /\ Persisting(dryRun)
       THEN \E ok \in BOOLEAN :
              updateCalls' = UpdateCircuitBatch(updateCalls, batch, ok)
       ELSE UNCHANGED updateCalls
  /\ pc' = "idle"
  /\ outcome' = "completed"
  /\ UNCHANGED <<adapterVars, cfgVars, loopVars, token,
                 circuits, poolVars, batch, processedCount,
                 successCount, errorCount, received>>

\* --------------------------------------------------------- the main loop
\* the ticker delivers a tick: it is buffered in ticker.C, or dropped when
\* the buffer already holds one
TickerFires ==
  /\ ~panicked
  /\ pc # "exit"
  /\ ticks > 0
  /\ ticks' = ticks - 1
  /\ tickCh' = 1
  /\ UNCHANGED <<adapterVars, cfgVars, sigs, sigCh, run, outcome, token, pc, circuits,
                 poolVars, writerVars>>

\* the process is sent SIGINT or SIGTERM: signal.Notify buffers it in
\* sigChan, or drops it when the buffer already holds one
SignalArrives ==
  /\ ~panicked
  /\ pc # "exit"
  /\ sigs > 0
  /\ sigs' = sigs - 1
  /\ sigCh' = 1
  /\ UNCHANGED <<adapterVars, cfgVars, ticks, tickCh, run, outcome, token, pc, circuits,
                 poolVars, writerVars>>

\* mutant of AtSelect: a tick is served whatever the controller is doing
AtSelectAnytime == pc # "exit"

\* main is blocked in its select: runProcess is called from main's own
\* goroutine and has returned
AtSelect == pc = "idle"

\* "case <-ticker.C: runProcess()": a fresh call of runProcess, whose locals
\* and whose pool (channels, WaitGroup, goroutines) are new
SelectTick ==
  /\ ~panicked
  /\ AtSelect
  /\ tickCh = 1
  /\ tickCh' = 0
  /\ run' = run + 1
  /\ outcome' = "running"
  /\ pc' = "auth"
  /\ circuits' = <<>>
  /\ jobs' = <<>>
  /\ results' = <<>>
  /\ resultsCap' = 0
  /\ resultsClosed' = FALSE
  /\ wg' = 0
  /\ spawned' = 0
  /\ wpc' = [w \in Workers |-> "none"]
  /\ wcur' = [w \in Workers |-> 0]
  /\ wnet' = [w \in Workers |-> NoNet]
  /\ enriched' = [w \in Workers |-> NewEnrichedData(0)]
  /\ closer' = "none"
  /\ batch' = <<>>
  /\ processedCount' = 0
  /\ successCount' = 0
  /\ errorCount' = 0
  /\ received' = <<>>
  /\ updateCalls' = <<>>
  /\ called' = [p \in Ports |-> {}]
  /\ failed' = [p \in Ports |-> {}]
  /\ UNCHANGED <<adapterVars, cfgVars, ticks, sigs, sigCh, token, panicked>>

\* "case <-sigChan: cancel(); return": main returns and the process ends.
\* (The third case, <-ctx.Done(), is never ready: cancel is called only
\* here and by the deferred call at main's return.)
SelectSignal ==
  /\ ~panicked
  /\ AtSelect
  /\ sigCh = 1
  /\ sigCh' = 0
  /\ pc' = "exit"
  /\ UNCHANGED <<adapterVars, cfgVars, ticks, sigs, tickCh, run, outcome, token, circuits,
                 poolVars, writerVars>>

\* ------------------------------------------------------------------ Init
\* the adapters seen from the pool: their calls are single steps of the
\* workers and of the controller, their inner state is not followed
RepoIdle ==
  /\ dbpc = "none"
  /\ txData = <<>>
  /\ dbIdx = 0
  /\ tx = "none"
  /\ txRows = <<>>
  /\ table = <<>>
  /\ dbErr = NoError

NotionIdle ==
  /\ npc = <<>>
  /\ attempt = <<>>
  /\ wake = <<>>
  /\ responses = <<>>
  /\ nret = <<>>
  /\ mu = 0
  /\ lastRequest = 0
  /\ prevRequest = 0
  /\ now = 0

AdaptersIdle == RepoIdle /\ NotionIdle

\* the first call of runProcess has begun; no pool run was started yet
NoPoolYet ==
  /\ AdaptersIdle
  /\ tickCh = 0
  /\ sigCh = 0
  /\ run = 1
  /\ outcome = "running"
  /\ jobs = <<>>
  /\ results = <<>>
  /\ resultsCap = 0
  /\ resultsClosed = FALSE
  /\ wg = 0
  /\ spawned = 0
  /\ wpc = [w \in Workers |-> "none"]
  /\ wcur = [w \in Workers |-> 0]
  /\ wnet = [w \in Workers |-> NoNet]
  /\ enriched = [w \in Workers |-> NewEnrichedData(0)]
  /\ closer = "none"
  /\ panicked = FALSE
  /\ batch = <<>>
  /\ processedCount = 0
  /\ successCount = 0
  /\ errorCount = 0
  /\ received = <<>>
  /\ updateCalls = <<>>
  /\ called = [p \in Ports |-> {}]
  /\ failed = [p \in Ports |-> {}]

InitRun ==
  /\ pc = "auth"
  /\ token = NoValue
  /\ circuits = <<>>
  /\ NoPoolYet

\* one run of a pool of up to MaxWorkers workers over up to MaxCircuits
\* circuits: no tick and no signal comes
PoolConfig ==
  /\ \E env \in WorkerCountSettings : workerCount = LoadWorkerCount(env)
  /\ rows \in 0..MaxCircuits
  /\ ticks = 0
  /\ sigs = 0

\* up to MaxTicks further runs, and up to MaxSignals signals, of a pool of
\* one worker over at most one circuit
LoopConfig ==
  /\ workerCount = LoadWorkerCount([exists |-> TRUE, value |-> Itoa(1)])
  /\ rows \in 0..1
  /\ ticks \in 1..MaxTicks
  /\ sigs \in 0..MaxSignals

Init ==
  /\ PoolConfig \/ LoopConfig
  /\ dryRun \in BOOLEAN
  /\ upstream = "any"
  /\ script = 0
  /\ InitRun

\* a long stream for the batch writer: one worker and scripted upstreams
StreamSizes == {1, batchSize, batchSize + 1, MaxStream}

InitBatch ==
  /\ dryRun \in BOOLEAN
  /\ \/ /\ workerCount = 1
        /\ rows \in IF dryRun THEN StreamSizes \ {MaxStream} ELSE StreamSizes
        /\ ticks = 0
        /\ sigs = 0
     \/ LoopConfig
  /\ upstream = "scripted"
  /\ script = 0
  /\ InitRun

Next ==
  \/ Authenticate
  \/ FetchPendingCircuits
  \/ RunEnqueue
  \/ RunSpawnWorker
  \/ RunReturn
  \/ \E w \in Workers : WorkerDequeue(w)
  \/ \E w \in Workers : WorkerNetworkInfo(w)
  \/ \E w \in Workers : WorkerServiceDetails(w)
  \/ \E w \in Workers : WorkerOpticalInfo(w)
  \/ \E w \in Workers : WorkerSend(w)
  \/ CloseResults
  \/ ConsumeResult
  \/ FinishRun
  \/ TickerFires
  \/ SignalArrives
  \/ SelectTick
  \/ SelectSignal

Spec == Init /\ [][Next]_vars

SpecBatch == InitBatch /\ [][Next]_vars

\* "raw" upstreams: a response may lack what the adapters expect
InitRaw ==
  /\ PoolConfig \/ LoopConfig
  /\ workerCount >= 1
  /\ dryRun \in BOOLEAN
  /\ upstream = "raw"
  /\ script = 0
  /\ InitRun

SpecRaw == InitRaw /\ [][Next]_vars

\* "fixed" upstreams: the outcome of every lookup depends on the circuit
\* only
InitFixed ==
  /\ PoolConfig \/ LoopConfig
  /\ dryRun \in BOOLEAN
  /\ upstream = "fixed"
  /\ script \in 0..(Power(5, rows) - 1)
  /\ InitRun

SpecFixed == InitFixed /\ [][Next]_vars

\* The pool as a unit: a caller that hands whatever list it fetched to
\* pool.Run, the empty list included, as the main of part_002 does after
\* its Authenticate and FetchPendingCircuits calls succeeded; or the
\* current controller in its loop.
InitPool ==
  /\ dryRun = FALSE
  /\ upstream = "any"
  /\ script = 0
  /\ \/ /\ \E n \in Workers :
             workerCount = LoadWorkerCount([exists |-> TRUE,
                                            value |-> Itoa(n)])
        /\ rows \in 0..MaxCircuits
        /\ ticks = 0
        /\ sigs = 0
        /\ pc = "run"
        /\ token = SessionToken(1)
        /\ circuits = CircuitTable(rows)
        /\ NoPoolYet
     \/ /\ LoopConfig
        /\ InitRun

\* Every goroutine that can take a step eventually takes it: the Go
\* scheduler runs every runnable goroutine, and every port call returns.
Fairness ==
  /\ WF_vars(Authenticate)
  /\ WF_vars(FetchPendingCircuits)
  /\ WF_vars(RunEnqueue)
  /\ WF_vars(RunSpawnWorker)
  /\ WF_vars(RunReturn)
  /\ \A w \in Workers :
       /\ WF_vars(WorkerDequeue(w))
       /\ WF_vars(WorkerNetworkInfo(w))
       /\ WF_vars(WorkerServiceDetails(w))
       /\ WF_vars(WorkerOpticalInfo(w))
       /\ WF_vars(WorkerSend(w))
  /\ WF_vars(CloseResults)
  /\ WF_vars(ConsumeResult)
  /\ WF_vars(FinishRun)
  /\ WF_vars(SelectTick)

\* the liveness specifications run outside dry-run, where the controller
\* has more to do
InitFair == Init /\ ~dryRun

FairSpec == InitFair /\ [][Next]_vars /\ Fairness

\* The same, except that the port calls of worker 1 need not return: its
\* upstream may keep it blocked in a lookup forever.
FairnessOneBlocked ==
  /\ WF_vars(Authenticate)
  /\ WF_vars(FetchPendingCircuits)
  /\ WF_vars(RunEnqueue)
  /\ WF_vars(RunSpawnWorker)
  /\ WF_vars(RunReturn)
  /\ \A w \in Workers :
       /\ WF_vars(WorkerDequeue(w))
       /\ WF_vars(WorkerSend(w))
  /\ \A w \in Workers \ {1} :
       /\ WF_vars(WorkerNetworkInfo(w))
       /\ WF_vars(WorkerServiceDetails(w))
       /\ WF_vars(WorkerOpticalInfo(w))
  /\ WF_vars(CloseResults)
  /\ WF_vars(ConsumeResult)
  /\ WF_vars(FinishRun)
  /\ WF_vars(SelectTick)

FairSpecOneBlocked == InitFair /\ [][Next]_vars /\ FairnessOneBlocked

\* Every goroutine of the pool is scheduled, but the consumer of the
\* result stream need not be: it may read nothing for as long as it likes.
FairnessIdleConsumer ==
  /\ WF_vars(Authenticate)
  /\ WF_vars(FetchPendingCircuits)
  /\ WF_vars(RunEnqueue)
  /\ WF_vars(RunSpawnWorker)
  /\ WF_vars(RunReturn)
  /\ \A w \in Workers :
       /\ WF_vars(WorkerDequeue(w))
       /\ WF_vars(WorkerNetworkInfo(w))
       /\ WF_vars(WorkerServiceDetails(w))
       /\ WF_vars(WorkerOpticalInfo(w))
       /\ WF_vars(WorkerSend(w))
  /\ WF_vars(CloseResults)

FairSpecPool == InitPool /\ [][Next]_vars /\ FairnessIdleConsumer

\* ---------------------------------------------------------------- helpers
Range(seq) == {seq[i] : i \in DOMAIN seq}

Count(seq, x) == Cardinality({i \in DOMAIN seq : seq[i] = x})

CeilDiv(n, d) == (n + d - 1) \div d

\* the CircuitIDs of everything sent on the result stream so far: what the
\* consumer has read, then what is still buffered
StreamIDs == received \o [i \in DOMAIN results |-> results[i].CircuitID]

\* every result passes through the buffer of the result channel
Emitted == Range(results)

AllWorkersReturned ==
  /\ spawned = IF workerCount > 0 THEN workerCount ELSE 0
  /\ \A w \in Workers : w <= workerCount => wpc[w] = "done"

\* runProcess went through the pool, drained the stream and returned
RunCompleted == pc = "idle" /\ resultsClosed

\* ----------------------------------------------------------------- claims

\* C1: with N >= 1 workers the result stream carries, when it is closed,
\* exactly one result per fetched circuit, identified by the circuit's CID;
\* at no time does it carry a CID twice or a CID that was not fetched.
C1_ExactlyOneResultPerCircuit ==
  /\ \A c \in Range(circuits) : Count(StreamIDs, c) <= 1
  /\ Range(StreamIDs) \subseteq Range(circuits)
  /\ (workerCount >= 1 /\ resultsClosed) =>
       /\ Len(StreamIDs) = Len(circuits)
       /\ \A c \in Range(circuits) : Count(StreamIDs, c) = 1

\* C1 witness: a closed, fully read stream of MaxCircuits results of which
\* some failed and some succeeded
C1_Witness ==
  /\ resultsClosed
  /\ results = <<>>
  /\ workerCount >= 1
  /\ Len(received) = MaxCircuits
  /\ failed["notion"] # {}
  /\ failed["notion"] # Range(circuits)

\* C2: the result stream is closed only after all N workers were started
\* and have returned, and no send ever hits the closed stream (no panic).
C2_ClosedOnlyAfterAllWorkersReturned ==
  /\ resultsClosed => AllWorkersReturned
  /\ ~panicked

\* C2 witness: the stream of a pool of two workers that processed circuits
\* has been closed
C2_Witness ==
  /\ resultsClosed
  /\ workerCount = 2
  /\ Len(StreamIDs) >= 2

\* C3: once the pool runs with N >= 1 workers, under fair scheduling all
\* workers exit, the stream is closed, every result is delivered and the
\* run returns, whatever lookups fail.
C3_PoolDrainsAndCloses ==
  (pc = "consume" /\ workerCount >= 1) ~>
    (/\ RunCompleted
     /\ AllWorkersReturned
     /\ Len(received) = Len(circuits))

\* C3 witness: a completed run in which the first lookup of every circuit
\* failed
C3_Witness ==
  /\ RunCompleted
  /\ workerCount >= 1
  /\ Len(circuits) >= 2
  /\ failed["notion"] = Range(circuits)
  /\ Len(received) = Len(circuits)

C5_ServiceDetailFailureRecorded ==
  \A e \in Emitted :
    e.CircuitID \in failed["ubersmith"] =>
      e.Error # NoError /\ "ubersmith" \in Range(e.Error)

\* C6: when two or more lookups of a circuit failed, the Error of its
\* result retains the tag of every failed lookup.
C6_AllFailedCausesRetained ==
  \A e \in Emitted :
    LET bad == {p \in Ports : e.CircuitID \in failed[p]} IN
      Cardinality(bad) >= 2 => bad \subseteq Range(e.Error)

\* C7: a circuit whose network-info lookup failed never gets the optical
\* lookup; its result has exactly the network-info cause as Error and empty
\* StatusGpon and RxPower.
C7_NoOpticalAfterNetworkFailure ==
  /\ failed["notion"] \cap called["zabbix"] = {}
  /\ \A e \in Emitted :
       e.CircuitID \in failed["notion"] =>
         /\ e.Error = <<"notion">>
         /\ e.StatusGpon = NoValue
         /\ e.RxPower = NoValue

\* C7 witness: a network-info failure has been emitted while the optical
\* lookup was made for another circuit
C7_Witness ==
  /\ \E e \in Emitted : e.CircuitID \in failed["notion"]
  /\ called["zabbix"] # {}

\* C8: a circuit whose service-detail lookup failed (after network-info
\* succeeded) still gets the optical lookup, and when that succeeds the
\* result carries exactly the status and receive power it returned.
C8_OpticalDataKeptOnServiceDetailFailure ==
  \A e \in Emitted :
    e.CircuitID \in failed["ubersmith"] =>
      /\ e.CircuitID \in called["zabbix"]
      /\ e.CircuitID \notin failed["zabbix"] =>
           LET opt == OpticalInfoOf(NetworkInfoOf(e.CircuitID)) IN
             /\ e.StatusGpon = opt.status
             /\ e.RxPower = opt.rx
             /\ e.StatusGpon # NoValue
             /\ e.RxPower # NoValue

\* C8 witness: the result of a circuit with a failed service-detail lookup
\* and a successful optical lookup is on the stream
C8_Witness ==
  \E e \in Emitted :
    /\ e.CircuitID \in failed["ubersmith"]
    /\ e.CircuitID \in called["zabbix"] \ failed["zabbix"]

\* the number of items of the calls' arguments with the given CircuitID
TimesWritten(cid) ==
  LET items == UNION {{<<j, q>> : q \in DOMAIN updateCalls[j].data} :
                        j \in DOMAIN updateCalls}
  IN Cardinality({jq \in items :
                    updateCalls[jq[1]].data[jq[2]].CircuitID = cid})

C10_BatchSizesAndOrder ==
  ~dryRun =>
    /\ \A j \in DOMAIN updateCalls :
         /\ Len(updateCalls[j].data) >= 1
         /\ Len(updateCalls[j].data) <= batchSize
         /\ j < Len(updateCalls) => Len(updateCalls[j].data) = batchSize
         /\ \A q \in DOMAIN updateCalls[j].data :
              /\ (j - 1) * batchSize + q <= Len(received)
              /\ updateCalls[j].data[q].CircuitID =
                   received[(j - 1) * batchSize + q]
    /\ pc = "consume" =>
         /\ Len(batch) < batchSize
         /\ Len(received) = Len(updateCalls) * batchSize + Len(batch)
         /\ \A q \in DOMAIN batch :
              batch[q].CircuitID = received[Len(updateCalls) * batchSize + q]

\* C10 witness: a completed run over 250 results made three calls, of 100,
\* 100 and 50 items
C10_Witness ==
  /\ RunCompleted
  /\ Len(received) = 250
  /\ Len(updateCalls) = 3
  /\ Len(updateCalls[1].data) = 100
  /\ Len(updateCalls[2].data) = 100
  /\ Len(updateCalls[3].data) = 50

\* the CircuitIDs of the items of a sequence of results
IDsOf(data) == {data[q].CircuitID : q \in DOMAIN data}

\* C11: outside dry-run, after an UpdateCircuitBatch call returned an error
\* the accumulator holds none of its items, no other call of the run gets
\* one of its items, and when the run has completed every result read
\* after the failed batch is an item of a later call.
C11_FailedBatchDroppedRestAttempted ==
  ~dryRun =>
    \A j \in DOMAIN updateCalls :
      ~updateCalls[j].ok =>
        /\ \A k \in DOMAIN updateCalls :
             k # j => IDsOf(updateCalls[k].data) \cap
                        IDsOf(updateCalls[j].data) = {}
        /\ pc = "consume" =>
             IDsOf(batch) \cap IDsOf(updateCalls[j].data) = {}
        /\ RunCompleted =>
             \A i \in DOMAIN received :
               i > j * batchSize =>
                 \E k \in DOMAIN updateCalls :
                   k > j /\ received[i] \in IDsOf(updateCalls[k].data)

\* C11 witness: a completed run over 250 results whose first call failed
\* and was followed by a full batch and the final partial batch
C11_Witness ==
  /\ RunCompleted
  /\ Len(received) = 250
  /\ Len(updateCalls) = 3
  /\ ~updateCalls[1].ok
  /\ Len(updateCalls[3].data) = 50

\* Run has been called in this run of the controller
PoolStarted == pc \in {"spawn", "consume"} \/ RunCompleted

\* C12: the pool is never run with a worker count below 1, so a non-empty
\* circuit list never ends in a closed stream without results.
C12_PoolNeverRunWithoutWorkers ==
  /\ PoolStarted => workerCount >= 1
  /\ (resultsClosed /\ circuits # <<>>) => StreamIDs # <<>>

\* the worker goroutines that exist, and those that hold a circuit
StartedWorkers == {w \in Workers : wpc[w] # "none"}
BusyWorkers == {w \in Workers : wpc[w] \notin {"none", "range", "done"}}

\* the number of circuits dequeued and not yet sent on the result stream
InFlight == Len(circuits) - Len(jobs) - Len(StreamIDs)

\* C13: Run starts exactly N worker goroutines (none for N <= 0), every
\* circuit between dequeue and emission is held by a worker of its own,
\* and so at most N circuits are in flight.
C13_ExactlyNWorkersAtMostNInFlight ==
  /\ Cardinality(StartedWorkers) = spawned
  /\ spawned = 0 \/ spawned <= workerCount
  /\ (pc = "consume" /\ workerCount >= 1) => spawned = workerCount
  /\ PoolStarted =>
       /\ InFlight = Cardinality(BusyWorkers)
       /\ \A v, w \in BusyWorkers : v # w => wcur[v] # wcur[w]
       /\ workerCount >= 1 => InFlight <= workerCount

\* C13 witness: both workers of a pool of two hold a circuit while the
\* controller consumes
C13_Witness ==
  /\ pc = "consume"
  /\ workerCount = 2
  /\ InFlight = 2

\* C14: a worker leaves its loop only when the job queue is empty, and with
\* N >= 2 workers of which worker 1 may stay blocked in a lookup forever,
\* the queue is still emptied and every circuit that worker 1 does not
\* hold is processed and delivered.
C14_QueueSharedByAllWorkers ==
  /\ [][\A w \in Workers :
          (wpc[w] # "done" /\ wpc'[w] = "done") => jobs = <<>>]_vars
  /\ (pc = "consume" /\ workerCount >= 2) ~>
       (/\ jobs = <<>>
        /\ \A c \in Range(circuits) :
             c \in Range(received) \/ (1 \in BusyWorkers /\ wcur[1] = c))

\* C14 witness: worker 1 is still in its first lookup, the queue is empty
\* and the results of all other circuits have been read
C14_Witness ==
  /\ wpc[1] = "notion"
  /\ workerCount >= 2
  /\ jobs = <<>>
  /\ Len(circuits) = MaxCircuits
  /\ Len(received) = Len(circuits) - 1

\* the result the workflow yields for a circuit of the "fixed" upstreams,
\* whichever worker runs it and whenever
ExpectedResult(cid) ==
  LET o == OutcomeOf(cid)
      det == ServiceDetailsOf(cid)
      opt == OpticalInfoOf(NetworkInfoOf(cid))
  IN [CircuitID |-> cid,
      PPPoEUsername |-> IF o \in {1, 2, 4} THEN NoValue ELSE det.user,
      PPPoEPassword |-> IF o \in {1, 2, 4} THEN NoValue ELSE det.pass,
      StatusGpon |-> IF o \in {1, 3, 4} THEN NoValue ELSE opt.status,
      RxPower |-> IF o \in {1, 3, 4} THEN NoValue ELSE opt.rx,
      Error |-> CASE o = 1 -> <<"notion">>
                  [] o \in {3, 4} -> <<"zabbix">>
                  [] OTHER -> NoError]

\* C15: when the outcome of every lookup depends on the circuit only, then
\* for every N >= 1 and every interleaving each result on the stream and in
\* an UpdateCircuitBatch call is the one result the workflow yields for its
\* circuit, and the closed stream holds the results of exactly the fetched
\* circuits, in any order.
C15_ResultSetIndependentOfWorkers ==
  (upstream = "fixed" /\ workerCount >= 1) =>
    /\ \A e \in Emitted : e = ExpectedResult(e.CircuitID)
    /\ \A j \in DOMAIN updateCalls :
         \A q \in DOMAIN updateCalls[j].data :
           updateCalls[j].data[q] =
             ExpectedResult(updateCalls[j].data[q].CircuitID)
    /\ resultsClosed =>
         /\ Range(StreamIDs) = Range(circuits)
         /\ Len(StreamIDs) = Len(circuits)

\* C15 witness: two workers delivered the results of MaxCircuits circuits,
\* not all with the same outcome, in another order than the input order
C15_Witness ==
  /\ upstream = "fixed"
  /\ workerCount = 2
  /\ RunCompleted
  /\ Len(received) = MaxCircuits
  /\ received[1] # circuits[1]
  /\ OutcomeOf(1) # OutcomeOf(2)

\* C16: runProcess is called again only from main's select, that is after
\* the previous call has returned: every worker and the closing goroutine
\* of the previous pool have ended, its stream is closed and was read to
\* the end, and outside dry-run every result read was handed to
\* UpdateCircuitBatch.  While a call is active no goroutine of an earlier
\* call exists.
C16_RunsNeverOverlap ==
  [][run' # run =>
       /\ pc = "idle"
       /\ outcome # "running"
       /\ \A w \in StartedWorkers : wpc[w] = "done"
       /\ closer \in {"none", "done"}
       /\ results = <<>>
       /\ outcome = "completed" =>
            /\ resultsClosed
            /\ workerCount >= 1 => Len(received) = Len(circuits)
            /\ ~dryRun =>
                 Len(updateCalls) = CeilDiv(Len(received), batchSize)]_vars

\* C16 witness: the second run, started by a tick after a completed first
\* run over one circuit, has itself completed
C16_Witness ==
  /\ run = 2
  /\ outcome = "completed"
  /\ Len(received) = 1
  /\ ticks < MaxTicks

\* C17: when FetchPendingCircuits returned an error, runProcess has
\* returned: no worker was started, no port was called and
\* UpdateCircuitBatch was not called in that run.
C17_FetchErrorAbortsRun ==
  outcome = "fetchError" =>
    /\ pc \in {"idle", "exit"}
    /\ ~PoolStarted
    /\ StartedWorkers = {}
    /\ closer = "none"
    /\ \A p \in Ports : called[p] = {}
    /\ updateCalls = <<>>

\* C17 witness: the fetch from a table with rows failed and main is back in
\* its select
C17_Witness ==
  /\ outcome = "fetchError"
  /\ pc = "idle"
  /\ rows >= 1

\* C18: no answer to a lookup and no answer to UpdateCircuitBatch ends the
\* process.
C18_NoFailureTerminatesProcess ==
  ((\E p \in Ports : called[p] # {}) \/ updateCalls # <<>>) => ~panicked

\* C19: no worker is about to write the Zabbix adapter's token while another
\* worker is about to read or write it.
C19_TokenNeverAccessedConcurrently ==
  \A v, w \in Workers :
    (v # w /\ wpc[v] \in TokenWriters) =>
      wpc[w] \notin TokenReaders \cup TokenWriters

\* C20: with upstreams that answer as specified, whatever a run does after
\* its first step it does with the session token of its own successful
\* Authenticate call, and when that call failed the run has ended without
\* a fetch, without a pool and without an UpdateCircuitBatch call; main is
\* back in its select.
C20_AuthenticateFirstInEveryRun ==
  /\ (pc \in {"fetch", "run", "spawn", "consume"} \/ StartedWorkers # {}) =>
       /\ token = SessionToken(run)
       /\ token # NoValue
  /\ outcome \in {"fetchError", "noCircuits", "completed"} =>
       token = SessionToken(run)
  /\ outcome = "authError" =>
       /\ pc \in {"idle", "exit"}
       /\ circuits = <<>>
       /\ ~PoolStarted
       /\ StartedWorkers = {}
       /\ \A p \in Ports : called[p] = {}
       /\ updateCalls = <<>>

\* C20 witness: the Authenticate call of the second run failed, after a
\* first run that completed; main waits in its select
C20_Witness ==
  /\ run = 2
  /\ outcome = "authError"
  /\ pc = "idle"
  /\ token = SessionToken(1)

\* C21: a run that reached its summary has processedCount = K, the number
\* of circuits fetched, and successCount + errorCount = processedCount;
\* errorCount is the number of results with a non-nil Error and
\* successCount the number of those with a nil Error (the accumulator of a
\* run below the batch size still holds every result that was read),
\* whatever the UpdateCircuitBatch calls returned.
C21_CountersAtSummary ==
  outcome = "completed" =>
    /\ processedCount = Len(circuits)
    /\ successCount + errorCount = processedCount
    /\ Len(received) < batchSize =>
         /\ errorCount =
              Cardinality({i \in DOMAIN batch : batch[i].Error # NoError})
         /\ successCount =
              Cardinality({i \in DOMAIN batch : batch[i].Error = NoError})

\* C22: a run over an empty circuit list never has a result on its stream,
\* never has a worker holding a circuit, reads nothing and makes no
\* UpdateCircuitBatch call; and when WorkerPool.Run is called with the
\* empty list (N >= 1), all N workers return and the stream gets closed,
\* still empty, whether the consumer is reading or not.
C22_EmptyListClosedWithoutResult ==
  /\ [](circuits = <<>> =>
          /\ results = <<>>
          /\ received = <<>>
          /\ processedCount = 0
          /\ updateCalls = <<>>
          /\ BusyWorkers = {})
  /\ (pc = "spawn" /\ circuits = <<>>) ~>
       (resultsClosed /\ results = <<>> /\ AllWorkersReturned)

\* C22 witness: the run over an empty list handed to a pool of two workers
\* has returned after the stream was closed
C22_Witness ==
  /\ circuits = <<>>
  /\ workerCount = 2
  /\ spawned = 2
  /\ resultsClosed
  /\ outcome = "completed"
  /\ updateCalls = <<>>

\* C24: the result channel of a pool run has room for one result per
\* input circuit and never holds more; a worker that is about to send
\* finds room, so it never blocks; and from the call of Run on, the job
\* queue is filled without blocking, all N workers return and the stream
\* gets closed, whether the consumer is reading or not.
C24_WorkersNeverBlockOnSend ==
  /\ [](PoolStarted =>
          /\ resultsCap = Len(circuits)
          /\ Len(results) <= resultsCap
          /\ Len(results) + Cardinality(BusyWorkers) + Len(jobs)
               <= resultsCap
          /\ \A w \in Workers :
               (wpc[w] = "send" /\ ~resultsClosed) =>
                  Len(results) < resultsCap)
  /\ (pc = "run") ~> (resultsClosed /\ AllWorkersReturned)

\* C24 witness: the stream was closed while it held all MaxCircuits
\* results, before the consumer had read any
C24_Witness ==
  /\ resultsClosed
  /\ Len(circuits) = MaxCircuits
  /\ Len(results) = MaxCircuits
  /\ received = <<>>
  /\ AllWorkersReturned

\* C23: in a dry run no UpdateCircuitBatch call is ever made, neither at
\* the threshold nor at the end; still every result read is counted, the
\* accumulator holds the results read since the last threshold (it is
\* cleared at each multiple of batchSize), and a run that reached its
\* summary has read the whole stream of its pool.
C23_DryRunNeverWrites ==
  dryRun =>
    /\ updateCalls = <<>>
    /\ processedCount = Len(received)
    /\ successCount + errorCount = processedCount
    /\ Len(batch) = Len(received) % batchSize
    /\ \A i \in DOMAIN batch :
         batch[i].CircuitID =
           received[Len(received) - Len(batch) + i]
    /\ outcome = "completed" =>
         /\ results = <<>>
         /\ resultsClosed
         /\ workerCount >= 1 => Len(received) = Len(circuits)

\* C23 witness: a dry run over batchSize + 1 results reached its summary:
\* the accumulator was cleared once and holds the last result
C23_Witness ==
  /\ dryRun
  /\ outcome = "completed"
  /\ processedCount = batchSize + 1
  /\ Len(batch) = 1
  /\ updateCalls = <<>>

\* C30: whenever the results on the stream (read or still buffered) are
\* not in the input order of their circuits, the pool has at least two
\* workers; with one worker the stream is at every moment a prefix of the
\* circuit list.
C30_SingleWorkerKeepsInputOrder ==
  /\ StreamIDs # SubSeq(circuits, 1, Len(StreamIDs)) => workerCount >= 2
  /\ workerCount = 1 =>
       /\ Len(StreamIDs) <= Len(circuits)
       /\ \A i \in DOMAIN StreamIDs : StreamIDs[i] = circuits[i]

\* C30 witness: one worker delivered the results of MaxCircuits circuits,
\* and they were read in the input order
C30_Witness ==
  /\ workerCount = 1
  /\ RunCompleted
  /\ Len(circuits) = MaxCircuits
  /\ received = circuits

\* C26: main takes the shutdown branch only from its select between two
\* runs; a signal buffered in sigChan stays there until that branch takes
\* it; a run during which a signal is pending still returns, with the
\* signal still buffered, and a run that reached its summary has read the
\* whole closed stream and handed every result to UpdateCircuitBatch; back
\* in the select with a buffered signal, the shutdown branch is enabled.
C26_SignalServedOnlyBetweenRuns ==
  /\ [][/\ pc' = "exit" => (pc = "idle" /\ sigCh = 1)
        /\ (sigCh = 1 /\ sigCh' = 0) => (pc = "idle" /\ pc' = "exit")]_vars
  /\ [](outcome = "completed" =>
          /\ results = <<>>
          /\ resultsClosed
          /\ \A i \in DOMAIN received : TimesWritten(received[i]) = 1)
  /\ []((pc = "idle" /\ sigCh = 1) => ENABLED SelectSignal)
  /\ (sigCh = 1 /\ pc \notin {"idle", "exit"}) ~> (sigCh = 1 /\ pc = "idle")

\* C26 witness: a signal is buffered while main is back in its select
\* after a run that read one result and flushed it in its final batch
C26_Witness ==
  /\ pc = "idle"
  /\ sigCh = 1
  /\ outcome = "completed"
  /\ Len(received) = 1
  /\ Len(updateCalls) = 1

\* -------------------------------------------------- the circuitos table
\* the four enrichment columns of a circuit's row before the run: values
\* an earlier run stored (none of them empty)
PreviousRow(cid) ==
  [RxPower |-> 10 * cid + 6, StatusGpon |-> 10 * cid + 7,
   PPPoEUsername |-> 10 * cid + 8, PPPoEPassword |-> 10 * cid + 9]

\* mutant of UpdateRow: an empty value leaves the stored one in place
UpdateRowKeepIfEmpty(row, d) ==
  [RxPower |-> IF d.RxPower = NoValue THEN row.RxPower ELSE d.RxPower,
   StatusGpon |-> IF d.StatusGpon = NoValue THEN row.StatusGpon
                  ELSE d.StatusGpon,
   PPPoEUsername |-> IF d.PPPoEUsername = NoValue THEN row.PPPoEUsername
                     ELSE d.PPPoEUsername,
   PPPoEPassword |-> IF d.PPPoEPassword = NoValue THEN row.PPPoEPassword
                     ELSE d.PPPoEPassword]

\* "UPDATE circuitos SET RxPower=?, StatusGpon=?, PPPoEUsername=?,
\* PPPoEPassword=? WHERE CID=?" executed with the fields of d
UpdateRow(row, d) ==
  [RxPower |-> d.RxPower, StatusGpon |-> d.StatusGpon,
   PPPoEUsername |-> d.PPPoEUsername, PPPoEPassword |-> d.PPPoEPassword]

\* the row of a circuit after the statements of a batch were executed in
\* order
RECURSIVE RowAfterBatch(_, _, _)
RowAfterBatch(row, data, cid) ==
  IF data = <<>> THEN row
  ELSE RowAfterBatch(IF Head(data).CircuitID = cid
                       THEN UpdateRow(row, Head(data)) ELSE row,
                     Tail(data), cid)

\* the row of a circuit after a sequence of UpdateCircuitBatch calls: a
\* call that returned nil has committed its statements, a call that
\* returned an error has changed nothing
RECURSIVE RowAfterCalls(_, _, _)
RowAfterCalls(row, calls, cid) ==
  IF calls = <<>> THEN row
  ELSE RowAfterCalls(IF Head(calls).ok
                       THEN RowAfterBatch(row, Head(calls).data, cid)
                       ELSE row,
                     Tail(calls), cid)

\* the stored row of a circuit, given the calls the run has made so far
StoredRow(cid) == RowAfterCalls(PreviousRow(cid), updateCalls, cid)

\* ------------------------------- the repository's UpdateCircuitBatch call
\* The call is followed statement by statement: every database operation
\* (Begin, Prepare, Exec, Commit) may succeed or return an error.
\* the items a worker can produce for a circuit: all lookups succeeded,
\* the optical lookup failed, or the network lookup failed
ItemsFor(cid) ==
  LET det == ServiceDetailsOf(cid)
      opt == OpticalInfoOf(NetworkInfoOf(cid))
      found == [NewEnrichedData(cid) EXCEPT !.PPPoEUsername = det.user,
                                            !.PPPoEPassword = det.pass]
  IN {[found EXCEPT !.StatusGpon = opt.status, !.RxPower = opt.rx],
      [found EXCEPT !.Error = Errorf(NoError, "zabbix")],
      [NewEnrichedData(cid) EXCEPT !.Error = Errorf(NoError, "notion")]}

\* the batches of n items, one per circuit 1..n
BatchesOf(n) == {b \in [1..n -> UNION {ItemsFor(c) : c \in 1..n}] :
                   \A i \in 1..n : b[i] \in ItemsFor(i)}

\* mutant of OnExecError: the statements executed so far are committed
OnExecErrorCommit == "committed"

\* "tx.Rollback()" after a failed Prepare
OnPrepareError == "rolledback"

\* "tx.Rollback()" after a failed Exec
OnExecError == "rolledback"

\* the committed rows after the transaction ended: its own view when it
\* was committed, the rows as they were otherwise
EndTransaction(how, committedRows, ownRows) ==
  IF how = "committed" THEN ownRows ELSE committedRows

\* "if len(data) == 0 { return nil }", then "tx, err := r.db.Begin();
\* if err != nil { return err }"
TxBegin ==
  /\ dbpc = "call"
  /\ IF Len(txData) = 0
       THEN /\ dbpc' = "returned"
            /\ dbErr' = NoError
            /\ UNCHANGED <<tx, txRows>>
       ELSE \E ok \in BOOLEAN :
              IF ok
                THEN /\ tx' = "open"
                     /\ txRows' = table
                     /\ dbpc' = "prepare"
                     /\ UNCHANGED dbErr
                ELSE /\ dbpc' = "returned"
                     /\ dbErr' = Errorf(NoError, "begin")
                     /\ UNCHANGED <<tx, txRows>>
  /\ UNCHANGED <<mainVars, notionVars, txData, dbIdx, table>>

\* "stmt, err := tx.Prepare(...); if err != nil { tx.Rollback();
\* return err }"
TxPrepare ==
  /\ dbpc = "prepare"
  /\ \E ok \in BOOLEAN :
       IF ok
         THEN /\ dbpc' = "exec"
              /\ dbIdx' = 1
              /\ UNCHANGED <<tx, table, dbErr>>
         ELSE /\ tx' = OnPrepareError
              /\ table' = EndTransaction(OnPrepareError, table, txRows)
              /\ dbpc' = "returned"
              /\ dbErr' = Errorf(NoError, "prepare")
              /\ UNCHANGED dbIdx
  /\ UNCHANGED <<mainVars, notionVars, txData, txRows>>

\* one iteration of "for _, d := range data": stmt.Exec(...), and on an
\* error "tx.Rollback(); return fmt.Errorf(...)"
StmtExec ==
  /\ dbpc = "exec"
  /\ dbIdx <= Len(txData)
  /\ LET d == txData[dbIdx]
     IN \E ok \in BOOLEAN :
          IF ok
            THEN /\ txRows' = [txRows EXCEPT ![d.CircuitID] =
                                 UpdateRow(txRows[d.CircuitID], d)]
                 /\ dbIdx' = dbIdx + 1
                 /\ UNCHANGED <<dbpc, tx, table, dbErr>>
            ELSE /\ tx' = OnExecError
                 /\ table' = EndTransaction(OnExecError, table, txRows)
                 /\ dbpc' = "returned"
                 /\ dbErr' = Errorf(NoError, "exec")
                 /\ UNCHANGED <<dbIdx, txRows>>
  /\ UNCHANGED <<mainVars, notionVars, txData>>

\* "return tx.Commit()" after the loop: a Commit that returns an error has
\* committed nothing
TxCommit ==
  /\ dbpc = "exec"
  /\ dbIdx > Len(txData)
  /\ \E ok \in BOOLEAN :
       LET how == IF ok THEN "committed" ELSE "aborted"
       IN /\ tx' = how
          /\ table' = EndTransaction(how, table, txRows)
          /\ dbErr' = IF ok THEN NoError ELSE Errorf(NoError, "commit")
  /\ dbpc' = "returned"
  /\ UNCHANGED <<mainVars, notionVars, txData, dbIdx, txRows>>

\* the table before the call
PreviousTable == [cid \in 1..MaxBatch |-> PreviousRow(cid)]

\* the controller and the pool while an adapter call is followed on its
\* own: nothing of them moves
MainIdle ==
  /\ workerCount = 1
  /\ dryRun = FALSE
  /\ rows = 0
  /\ upstream = "any"
  /\ script = 0
  /\ ticks = 0
  /\ sigs = 0
  /\ tickCh = 0
  /\ sigCh = 0
  /\ run = 1
  /\ outcome = "running"
  /\ token = NoValue
  /\ pc = "consume"
  /\ circuits = <<>>
  /\ jobs = <<>>
  /\ results = <<>>
  /\ resultsCap = 0
  /\ resultsClosed = FALSE
  /\ wg = 0
  /\ spawned = 0
  /\ wpc = [w \in Workers |-> "none"]
  /\ wcur = [w \in Workers |-> 0]
  /\ wnet = [w \in Workers |-> NoNet]
  /\ enriched = [w \in Workers |-> NewEnrichedData(0)]
  /\ closer = "none"
  /\ panicked = FALSE
  /\ batch = <<>>
  /\ processedCount = 0
  /\ successCount = 0
  /\ errorCount = 0
  /\ received = <<>>
  /\ updateCalls = <<>>
  /\ called = [p \in Ports |-> {}]
  /\ failed = [p \in Ports |-> {}]

\* a call of UpdateCircuitBatch with a batch of up to MaxBatch items begins
InitRepo ==
  /\ MainIdle
  /\ NotionIdle
  /\ dbpc = "call"
  /\ \E n \in 0..MaxBatch : txData \in BatchesOf(n)
  /\ dbIdx = 0
  /\ tx = "none"
  /\ txRows = <<>>
  /\ table = PreviousTable
  /\ dbErr = NoError

NextRepo ==
  \/ TxBegin
  \/ TxPrepare
  \/ StmtExec
  \/ TxCommit

SpecRepo == InitRepo /\ [][NextRepo]_vars

\* C27: UpdateCircuitBatch is all-or-nothing.  While the call is running
\* and after it returned an error the committed rows are those from
\* before the call; a call that returned an error after Begin succeeded
\* has ended its transaction without a commit (rolled back after a failed
\* Prepare or Exec); the rows are changed only by a commit, which is made
\* only after every item's UPDATE was executed without error, and then
\* every row holds the values of its item; a call with an empty batch
\* returns nil and never opens a transaction.
C27_BatchAllOrNothing ==
  /\ (dbpc # "returned" \/ dbErr # NoError) => table = PreviousTable
  /\ (dbpc = "returned" /\ dbErr # NoError) =>
       /\ tx \in {"none", "rolledback", "aborted"}
       /\ tx = "none" <=> dbErr = Errorf(NoError, "begin")
       /\ dbErr \in {Errorf(NoError, "prepare"), Errorf(NoError, "exec")}
            => tx = "rolledback"
  /\ tx = "committed" <=>
       (dbpc = "returned" /\ dbErr = NoError /\ Len(txData) > 0)
  /\ tx = "committed" =>
       /\ dbIdx = Len(txData) + 1
       /\ \A cid \in 1..MaxBatch :
            table[cid] = RowAfterBatch(PreviousRow(cid), txData, cid)
       /\ \A i \in DOMAIN txData :
            table[txData[i].CircuitID] # PreviousRow(txData[i].CircuitID)
  /\ Len(txData) = 0 =>
       /\ tx = "none"
       /\ dbErr = NoError
       /\ dbpc \in {"call", "returned"}
  /\ dbpc = "returned" => tx # "open"

\* C27 witness: the Exec of the last of MaxBatch items failed after the
\* others had been executed; the call has returned the error and the
\* transaction is rolled back
C27_Witness ==
  /\ dbpc = "returned"
  /\ Len(txData) = MaxBatch
  /\ dbIdx = MaxBatch
  /\ dbErr = Errorf(NoError, "exec")
  /\ tx = "rolledback"
  /\ txRows[1] # table[1]

\* C25: outside dry-run every result read is handed to UpdateCircuitBatch
\* by the time the run reaches its summary, a result with a non-nil Error
\* included; such an item has the empty string in every field whose lookup
\* failed or was not made; and when its call returned nil the stored row
\* of the circuit holds exactly the item's four values, the empty ones
\* included, in place of the values stored before.
C25_FailedResultOverwritesStoredRow ==
  ~dryRun =>
    /\ outcome = "completed" =>
         \A i \in DOMAIN received : TimesWritten(received[i]) = 1
    /\ \A j \in DOMAIN updateCalls :
         \A q \in DOMAIN updateCalls[j].data :
           LET d == updateCalls[j].data[q]
               cid == d.CircuitID
           IN d.Error # NoError =>
                /\ cid \in failed["notion"] \cup failed["zabbix"]
                /\ cid \notin called["ubersmith"] \ failed["ubersmith"] =>
                     /\ d.PPPoEUsername = NoValue
                     /\ d.PPPoEPassword = NoValue
                /\ cid \notin called["zabbix"] \ failed["zabbix"] =>
                     /\ d.StatusGpon = NoValue
                     /\ d.RxPower = NoValue
                /\ updateCalls[j].ok =>
                     /\ StoredRow(cid) = UpdateRow(PreviousRow(cid), d)
                     /\ StoredRow(cid).StatusGpon = NoValue
                     /\ StoredRow(cid).RxPower = NoValue
                     /\ StoredRow(cid) # PreviousRow(cid)
                /\ ~updateCalls[j].ok => StoredRow(cid) = PreviousRow(cid)

\* C25 witness: a completed run wrote two results in a batch that was
\* committed; the optical lookup of one of them had failed after its
\* service details were found, and the row of that circuit now has its
\* PPPoE values and an empty RxPower
C25_Witness ==
  /\ ~dryRun
  /\ outcome = "completed"
  /\ Len(updateCalls) = 1
  /\ updateCalls[1].ok
  /\ Len(updateCalls[1].data) = 2
  /\ \E q \in DOMAIN updateCalls[1].data :
       LET d == updateCalls[1].data[q]
       IN /\ d.Error # NoError
          /\ d.PPPoEUsername # NoValue
          /\ StoredRow(d.CircuitID).RxPower = NoValue
          /\ StoredRow(d.CircuitID).PPPoEUsername = d.PPPoEUsername

\* ----------------------------------------- NotionAdapter.queryNotion calls
\* Up to MaxCallers workers are each inside one call of queryNotion on the
\* shared adapter.  Time is read from one clock, in ms; a step that reads
\* it gets a value not before the latest reading, and a sleep ends not
\* before its duration has passed.
Callers == 1..MaxCallers

\* the resolution of the clock readings: half the minimum interval
TimeStep == minInterval \div 2
Times == {k * TimeStep : k \in 0..MaxClock}

\* "lastRequest: time.Time{}": the zero time lies further back than any
\* interval the adapter waits for
ZeroTime == 0 - minInterval

\* what client.Do can return: a transport error, or a response with a
\* status code and a body that decodes or does not
Responses ==
  {[err |-> TRUE, status |-> 0, decodes |-> FALSE]} \cup
  {[err |-> FALSE, status |-> st, decodes |-> FALSE] : st \in {429, 500}} \cup
  {[err |-> FALSE, status |-> 200, decodes |-> d] : d \in BOOLEAN}

\* the Retry-After header of a 429 response: absent, a number of seconds,
\* or something that is not a number
RetryAfterHeaders == {<<>>, <<"0">>, <<"1">>, <<"x">>}

\* mutant of ShouldRetry: every status but 200 is retried
ShouldRetryNon200(status) == status # 200

\* mutant of LockFree: Lock does not wait for the holder
LockFreeAlways(m) == TRUE

\* "if resp.StatusCode == 429"
ShouldRetry(status) == status = 429

\* the sleep after a 429: Retry-After seconds if the header is a number,
\* else baseDelay * 2^attempt
RetryDelay(hdr, att) ==
  IF hdr # <<>> /\ ~Atoi(hdr).err
    THEN Atoi(hdr).n * 1000
    ELSE baseDelay * Power(2, att)

\* n.mu.Lock() goes through when no goroutine holds the mutex
LockFree(m) == m = 0

\* "elapsed := time.Since(n.lastRequest)"
Since(t, last) == t - last

\* the end of rateLimit's sleep, entered at time t: "if elapsed <
\* minInterval { time.Sleep(minInterval - elapsed) }"
SleepUntil(t, last) ==
  IF Since(t, last) < minInterval
    THEN t + (minInterval - Since(t, last))
    ELSE t

\* the head of the loop, "attempt < maxRetries", and n.rateLimit() up to
\* the acquired mutex
RateLimitLock(w) ==
  /\ npc[w] = "call"
  /\ attempt[w] < maxRetries
  /\ LockFree(mu)
  /\ mu' = w
  /\ npc' = [npc EXCEPT ![w] = "limit"]
  /\ UNCHANGED <<mainVars, repoVars, attempt, wake, responses, nret,
                 lastRequest, prevRequest, now>>

\* rateLimit reads the clock and starts to sleep if the last request is
\* too recent
RateLimitMeasure(w) ==
  /\ npc[w] = "limit"
  /\ \E t \in Times :
       /\ t >= now
       /\ now' = t
       /\ wake' = [wake EXCEPT ![w] = SleepUntil(t, lastRequest)]
  /\ npc' = [npc EXCEPT ![w] = "stamp"]
  /\ UNCHANGED <<mainVars, repoVars, attempt, responses, nret, mu,
                 lastRequest, prevRequest>>

\* "n.lastRequest = time.Now()" after the sleep, and the deferred Unlock;
\* the request is then built and sent
RateLimitStamp(w) ==
  /\ npc[w] = "stamp"
  /\ \E t \in Times :
       /\ t >= now
       /\ t >= wake[w]
       /\ now' = t
       /\ lastRequest' = t
  /\ prevRequest' = lastRequest
  /\ mu' = IF mu = w THEN 0 ELSE mu
  /\ npc' = [npc EXCEPT ![w] = "do"]
  /\ UNCHANGED <<mainVars, repoVars, attempt, wake, responses, nret>>

\* n.client.Do(req) returns, and queryNotion handles the answer up to its
\* return or up to the sleep before the next attempt
ClientDo(w) ==
  /\ npc[w] = "do"
  /\ \E r \in Responses :
       /\ responses' = [responses EXCEPT ![w] = Append(@, r)]
       /\ IF r.err
            THEN /\ nret' = [nret EXCEPT ![w] = "transport error"]
                 /\ npc' = [npc EXCEPT ![w] = "returned"]
                 /\ UNCHANGED wake
            ELSE IF ShouldRetry(r.status)
            THEN /\ \E hdr \in RetryAfterHeaders :
                      wake' = [wake EXCEPT ![w] =
                                 now + RetryDelay(hdr, attempt[w])]
                 /\ npc' = [npc EXCEPT ![w] = "backoff"]
                 /\ UNCHANGED nret
            ELSE IF r.status # 200
            THEN /\ nret' = [nret EXCEPT ![w] = "status error"]
                 /\ npc' = [npc EXCEPT ![w] = "returned"]
                 /\ UNCHANGED wake
            ELSE IF ~r.decodes
            THEN /\ nret' = [nret EXCEPT ![w] = "decode error"]
                 /\ npc' = [npc EXCEPT ![w] = "returned"]
                 /\ UNCHANGED wake
            ELSE /\ nret' = [nret EXCEPT ![w] = "result"]
                 /\ npc' = [npc EXCEPT ![w] = "returned"]
                 /\ UNCHANGED wake
  /\ UNCHANGED <<mainVars, repoVars, attempt, mu, lastRequest,
                 prevRequest, now>>

\* the sleep after a 429 ends: "if attempt < maxRetries-1 { continue }",
\* else the max-retries error is returned
Backoff(w) ==
  /\ npc[w] = "backoff"
  /\ \E t \in Times :
       /\ t >= now
       /\ t >= wake[w]
       /\ now' = t
  /\ IF attempt[w] < maxRetries - 1
       THEN /\ attempt' = [attempt EXCEPT ![w] = @ + 1]
            /\ npc' = [npc EXCEPT ![w] = "call"]
            /\ UNCHANGED nret
       ELSE /\ nret' = [nret EXCEPT ![w] = "max retries exceeded"]
            /\ npc' = [npc EXCEPT ![w] = "returned"]
            /\ UNCHANGED attempt
  /\ UNCHANGED <<mainVars, repoVars, wake, responses, mu, lastRequest,
                 prevRequest>>

\* a fresh adapter (NewNotionAdapter) and MaxCallers workers that each
\* call queryNotion
InitNotion ==
  /\ MainIdle
  /\ RepoIdle
  /\ npc = [w \in Callers |-> "call"]
  /\ attempt = [w \in Callers |-> 0]
  /\ wake = [w \in Callers |-> 0]
  /\ responses = [w \in Callers |-> <<>>]
  /\ nret = [w \in Callers |-> "none"]
  /\ mu = 0
  /\ lastRequest = ZeroTime
  /\ prevRequest = ZeroTime
  /\ now = 0

NextNotion ==
  \/ \E w \in Callers : RateLimitLock(w)
  \/ \E w \in Callers : RateLimitMeasure(w)
  \/ \E w \in Callers : RateLimitStamp(w)
  \/ \E w \in Callers : ClientDo(w)
  \/ \E w \in Callers : Backoff(w)

SpecNotion == InitNotion /\ [][NextNotion]_vars

\* the answer was a 429
Is429(r) == ~r.err /\ r.status = 429

\* C28: a call of queryNotion sends at most maxRetries = 3 requests; every
\* answer before its last one was a 429, and any other answer ends the
\* call at once: with the transport error, with a status error for
\* another status than 200, with the decode error for a 200 whose body
\* does not decode, with the result for the first 200 that decodes; a
\* call that got a 429 returns the max-retries error exactly when that
\* was its third.
C28_RetryOnlyOn429AtMostThreeAttempts ==
  \A w \in Callers :
    LET rs == responses[w]
        n == Len(rs)
    IN /\ n <= maxRetries
       /\ n = attempt[w] +
               (IF npc[w] \in {"backoff", "returned"} THEN 1 ELSE 0)
       /\ \A i \in 1..(n - 1) : Is429(rs[i])
       /\ (n > 0 /\ ~Is429(rs[n])) => npc[w] = "returned"
       /\ npc[w] = "returned" <=> nret[w] # "none"
       /\ npc[w] = "returned" =>
            /\ n > 0
            /\ nret[w] =
                 (IF rs[n].err THEN "transport error"
                  ELSE IF rs[n].status = 429 THEN "max retries exceeded"
                  ELSE IF rs[n].status # 200 THEN "status error"
                  ELSE IF ~rs[n].decodes THEN "decode error"
                  ELSE "result")
       /\ nret[w] = "max retries exceeded" <=>
            (n = maxRetries /\ Is429(rs[n]) /\ npc[w] = "returned")

\* C28 witness: a call returned the max-retries error after its third
\* 429, and another call returned a status error after its only request
C28_Witness ==
  \E v, w \in Callers :
    /\ nret[v] = "status error"
    /\ Len(responses[v]) = 1
    /\ nret[w] = "max retries exceeded"
    /\ Len(responses[w]) = maxRetries

\* the callers inside rateLimit
InRateLimit == {w \in Callers : npc[w] \in {"limit", "stamp"}}

\* C29: at most one caller is inside rateLimit, and it holds the mutex;
\* whenever lastRequest has been set twice or more, the time recorded last
\* is at least minInterval = 350 ms after the one recorded before it,
\* whichever callers and attempts recorded them.
C29_OneCallerInRateLimitMinInterval ==
  /\ Cardinality(InRateLimit) <= 1
  /\ \A w \in InRateLimit : mu = w
  /\ InRateLimit = {} => mu = 0
  /\ prevRequest # ZeroTime => lastRequest - prevRequest >= minInterval

\* C29 witness: two callers have their requests in flight, recorded
\* exactly minInterval apart, the later one after a sleep in rateLimit
C29_Witness ==
  /\ \A w \in Callers : w <= 2 => npc[w] = "do"
  /\ prevRequest # ZeroTime
  /\ lastRequest - prevRequest = minInterval
  /\ \E w \in Callers : wake[w] = lastRequest /\ wake[w] > prevRequest

====
